---- MODULE Spec2Model ----
(***************************************************************************)
(* Model of the canvas background renderer (src/src/graphic.ts) and of the *)
(* page entry point that constructs and starts it (src/src/main.ts).       *)
(*                                                                         *)
(* Numbers.  The program computes with IEEE doubles; the model computes    *)
(* with exact fixed-point numbers: an integer n stands for n / Scale.      *)
(* Scale is a multiple of FPS and timestamps are multiples of 1000/Scale,  *)
(* so (1 / FPS) * 1000 and timestamp / 1000 are both exact.  Rounding of   *)
(* the last bit of a double is not modelled.  Pixel dimensions are plain   *)
(* integers.                                                               *)
(***************************************************************************)
EXTENDS Integers, Sequences, FiniteSets

\* ------------------------------------------------------------------ bounds
\* Callbacks are delivered until this many milliseconds after the first one.
MaxElapsedMs == 75
\* Resize events delivered to the handler.
MaxResizes == 2

\* --------------------------------------------------------------- constants
FPS == 48
Scale == 125 * FPS
Ms(n) == n * Scale
MILLIS_PER_FRAME == (Scale \div FPS) * 1000

VERTEX_SHADER == "vertex"
FRAGMENT_SHADER == "fragment"
VERTICES == "VERTICES"
UVS == "UVS"

\* lastTimestamp: number | undefined
Undefined == -1
\* the host loop has delivered no timestamp yet
NoTime == -1
\* a field the constructor has not assigned
Unset == "unset"

\* ------------------------------------------------------ environment inputs
\* Viewport sizes the window can have.
Dims == {<<1920, 1080>>, <<800, 600>>}
\* Timestamp of the first callback (milliseconds since the time origin).
FirstTimes == {0, Ms(25), Ms(1000)}
\* Time between two display refreshes: 120 Hz, 60 Hz, 40 Hz, a stalled tab.
Gaps == {Ms(8), Ms(50) \div 3, Ms(25), Ms(45)}
MaxElapsed == Ms(MaxElapsedMs)

VARIABLES
  \* App / page
  pc,             \* "loading" | "running" | "failed"
  error,          \* stage named by the Error the constructor threw, or "none"
  \* Graphic fields
  width, height, program, buffers, locations, lastTimestamp, time, delta,
  \* canvas element, window, GL driver, host loop
  canvas,         \* <<canvas.width, canvas.height>>
  window,         \* <<window.innerWidth, window.innerHeight>>
  resizeListener, \* "resize" listener registered on window
  gl,             \* what the driver will answer: [vertex, fragment, link]
  rafPending,     \* outstanding requestAnimationFrame requests
  clock,          \* timestamp of the latest callback delivered
  draws,          \* drawArrays calls issued
  \* observation
  drawLog,        \* the last two draws
  nCalls,         \* callbacks delivered
  firstTs,        \* timestamp of the first callback
  maxGap,         \* largest gap between two consecutive callbacks
  nResizes        \* resize events handled

graphicVars == <<width, height, program, buffers, locations, lastTimestamp, time, delta>>
hostVars == <<canvas, window, resizeListener, gl, rafPending, clock, draws>>
obsVars == <<drawLog, nCalls, firstTs, maxGap, nResizes>>
vars == <<pc, error, graphicVars, hostVars, obsVars>>

\* ----------------------------------------------------------------- helpers
Max(a, b) == IF a >= b THEN a ELSE b
MinOf(S) == CHOOSE x \in S : \A y \in S : x <= y
LastTwo(s) == IF Len(s) <= 2 THEN s ELSE SubSeq(s, Len(s) - 1, Len(s))

\* requestAnimationFrame(cb): one more request outstanding
RequestAnimationFrameDropped(q) == q
RequestAnimationFrame(q) == q + 1

\* ------------------------------------------------- shader program creation
\* compileShader: the stage whose compilation throws, or "ok"
CompileShaderSilent(type) == "ok"
CompileShader(type) == IF gl[type] THEN "ok" ELSE type

ShaderInfo == <<VERTEX_SHADER, FRAGMENT_SHADER>>

\* createShaderProgram: the stage named by the Error thrown, or "none"
CreateShaderProgram ==
  LET failed == {i \in 1..Len(ShaderInfo) : CompileShader(ShaderInfo[i]) # "ok"}
  IN  IF failed # {} THEN ShaderInfo[MinOf(failed)]
      ELSE IF ~gl.link THEN "link"
      ELSE "none"

\* ------------------------------------------------------------------ frame
\* timestamp - this.lastTimestamp, after lastTimestamp was defaulted
ElapsedFromZero(last, timestamp) ==
  IF last = Undefined THEN timestamp ELSE timestamp - last
Elapsed(last, timestamp) ==
  IF last = Undefined THEN timestamp - timestamp ELSE timestamp - last

\* this.time = timestamp / 1000
WallTimeMillis(timestamp) == timestamp
WallTime(timestamp) == timestamp \div 1000

\* if (this.delta >= MILLIS_PER_FRAME)
ShouldRenderHalf(acc) == 2 * acc >= MILLIS_PER_FRAME
ShouldRender(acc) == acc >= MILLIS_PER_FRAME

\* this.delta -= MILLIS_PER_FRAME, inside the if
DeltaKept(acc) == acc
DeltaReset(acc) == IF ShouldRender(acc) THEN 0 ELSE acc
DeltaAfter(acc) == IF ShouldRender(acc) THEN acc - MILLIS_PER_FRAME ELSE acc

\* render(): what the GL context is given
RenderSwapped(w, h, t) ==
  [viewport |-> <<0, 0, h, w>>, screen |-> <<h, w>>, time |-> t,
   useProgram |-> program, vertex |-> buffers.vertex, uv |-> buffers.uv,
   count |-> 4]
Render(w, h, t) ==
  [viewport |-> <<0, 0, w, h>>, screen |-> <<w, h>>, time |-> t,
   useProgram |-> program, vertex |-> buffers.vertex, uv |-> buffers.uv,
   count |-> 4]

\* ------------------------------------------------------------------- state
Init ==
  /\ pc = "loading"
  /\ error = "none"
  /\ width = 0
  /\ height = 0
  /\ program = Unset
  /\ buffers = Unset
  /\ locations = Unset
  /\ lastTimestamp = Undefined
  /\ time = 0
  /\ delta = 0
  /\ canvas = <<300, 150>>
  /\ window \in Dims
  /\ resizeListener = FALSE
  /\ gl \in [vertex : BOOLEAN, fragment : BOOLEAN, link : BOOLEAN]
  /\ rafPending = 0
  /\ clock = NoTime
  /\ draws = 0
  /\ drawLog = <<>>
  /\ nCalls = 0
  /\ firstTs = NoTime
  /\ maxGap = 0
  /\ nResizes = 0

\* ----------------------------------------------------------------- actions
\* window "load": new App(), that is new Graphic(canvas), then start().
\* The Graphic constructor runs resize() and registers the resize listener
\* before it creates the shader program, so both survive a thrown Error.
Load ==
  /\ pc = "loading"
  /\ width' = window[1]
  /\ height' = window[2]
  /\ canvas' = window
  /\ resizeListener' = TRUE
  /\ error' = CreateShaderProgram
  /\ IF CreateShaderProgram = "none"
     THEN /\ program' = "program"
          /\ buffers' = [vertex |-> VERTICES, uv |-> UVS]
          /\ locations' = [attrs |-> [vertex |-> "pos", uv |-> "uv"],
                           uniforms |-> [screen |-> "screen", time |-> "time"]]
          /\ rafPending' = RequestAnimationFrame(rafPending)
          /\ pc' = "running"
     ELSE /\ pc' = "failed"
          /\ UNCHANGED <<program, buffers, locations, rafPending>>
  /\ UNCHANGED <<lastTimestamp, time, delta, window, gl, clock, draws, obsVars>>

\* Graphic.frame(timestamp), delivered by the host loop for one request.
Frame(timestamp) ==
  /\ rafPending > 0
  /\ LET acc == delta + Elapsed(lastTimestamp, timestamp)
         t == WallTime(timestamp)
         gap == IF clock = NoTime THEN 0 ELSE timestamp - clock
     IN  /\ time' = t
         /\ IF ShouldRender(acc)
            THEN /\ draws' = draws + 1
                 /\ drawLog' = LastTwo(Append(drawLog,
                        [gl |-> Render(width, height, t), ts |-> timestamp,
                         surface |-> window, rest |-> DeltaAfter(acc)]))
            ELSE UNCHANGED <<draws, drawLog>>
         /\ delta' = DeltaAfter(acc)
         /\ maxGap' = Max(maxGap, gap)
  /\ lastTimestamp' = timestamp
  /\ rafPending' = RequestAnimationFrame(rafPending - 1)
  /\ clock' = timestamp
  /\ nCalls' = nCalls + 1
  /\ firstTs' = IF firstTs = NoTime THEN timestamp ELSE firstTs
  /\ UNCHANGED <<pc, error, width, height, program, buffers, locations,
                 canvas, window, resizeListener, gl, nResizes>>

\* Graphic.resize(), run by the window's "resize" event with the new size.
ResizeRestarts(w, h) ==
  /\ resizeListener
  /\ nResizes < MaxResizes
  /\ window' = <<w, h>>
  /\ width' = w
  /\ height' = h
  /\ canvas' = <<w, h>>
  /\ delta' = 0
  /\ lastTimestamp' = Undefined
  /\ nResizes' = nResizes + 1
  /\ UNCHANGED <<pc, error, program, buffers, locations, time,
                 resizeListener, gl, rafPending, clock, draws,
                 drawLog, nCalls, firstTs, maxGap>>
Resize(w, h) ==
  /\ resizeListener
  /\ nResizes < MaxResizes
  /\ window' = <<w, h>>
  /\ width' = w
  /\ height' = h
  /\ canvas' = <<w, h>>
  /\ nResizes' = nResizes + 1
  /\ UNCHANGED <<pc, error, program, buffers, locations, lastTimestamp, time,
                 delta, resizeListener, gl, rafPending, clock, draws,
                 drawLog, nCalls, firstTs, maxGap>>

\* Timestamps the host loop can hand to the next callback.
NextTimestamps ==
  IF clock = NoTime THEN FirstTimes
  ELSE {clock + g : g \in {x \in Gaps : clock + x - firstTs <= MaxElapsed}}

FrameStep == \E timestamp \in NextTimestamps : Frame(timestamp)
ResizeStep == \E d \in Dims : Resize(d[1], d[2])

Next == Load \/ FrameStep \/ ResizeStep

Spec == Init /\ [][Next]_vars
\* The host loop delivers a requested callback on the next display refresh.
LiveSpec == Spec /\ WF_vars(FrameStep)

\* ------------------------------------------------------------------ claims
LastDraw == drawLog[Len(drawLog)]
PrevDraw == drawLog[Len(drawLog) - 1]
CallCounts == 0..(MaxElapsed \div MinOf(Gaps) + 1)

\* C1 (as stated): after any callback the accumulated time delta is in
\* [0, MILLIS_PER_FRAME).
C1_DeltaBelowInterval == delta >= 0 /\ delta < MILLIS_PER_FRAME

\* C1 (amended): after any callback the accumulated time delta is >= 0, and
\* it is below MILLIS_PER_FRAME as long as no two consecutive callbacks were
\* more than one frame interval apart.
C1_DeltaRange ==
  /\ delta >= 0
  /\ maxGap <= MILLIS_PER_FRAME => delta < MILLIS_PER_FRAME

C1_Witness ==
  /\ nCalls >= 3
  /\ draws >= 1
  /\ maxGap <= MILLIS_PER_FRAME
  /\ delta > 0
  /\ LastDraw.ts = clock

\* C2: after any prefix of callbacks the number of draws is at most
\* floor((latest timestamp - first timestamp) / MILLIS_PER_FRAME) + 1.
C2_DrawBound ==
  nCalls >= 1 => draws <= ((clock - firstTs) \div MILLIS_PER_FRAME) + 1

C2_Witness ==
  /\ draws = 3
  /\ (clock - firstTs) \div MILLIS_PER_FRAME = 3

\* C3: the first callback issues no draw whatever its timestamp; it records
\* the timestamp as lastTimestamp and requests the next callback.
C3_FirstCallbackNoDraw ==
  [][nCalls = 0 /\ nCalls' = 1 =>
       /\ draws' = draws
       /\ drawLog' = drawLog
       /\ lastTimestamp' = clock'
       /\ delta' = 0
       /\ rafPending' = 1]_vars

C3_Witness ==
  /\ nCalls = 1
  /\ clock = Ms(1000)
  /\ lastTimestamp = Ms(1000)
  /\ draws = 0

\* C4 (as stated): two successive callbacks that draw have timestamps at
\* least MILLIS_PER_FRAME apart.
C4_DrawSpacing ==
  Len(drawLog) = 2 => LastDraw.ts - PrevDraw.ts >= MILLIS_PER_FRAME

\* C4 (amended): two successive callbacks that draw have timestamps at least
\* MILLIS_PER_FRAME minus the accumulated time left by the earlier draw
\* apart, and the later timestamp is strictly greater.
C4_DrawSpacingLessRemainder ==
  Len(drawLog) = 2 =>
    /\ LastDraw.ts - PrevDraw.ts >= MILLIS_PER_FRAME - PrevDraw.rest
    /\ LastDraw.ts > PrevDraw.ts
    /\ PrevDraw.rest >= 0

C4_Witness ==
  /\ Len(drawLog) = 2
  /\ LastDraw.ts - PrevDraw.ts < MILLIS_PER_FRAME
  /\ PrevDraw.rest > 0
  /\ PrevDraw.rest < MILLIS_PER_FRAME

\* C5: a resize changes only width, height and the canvas pixel size (to the
\* window's size); program, buffers, locations, delta, time and
\* lastTimestamp stay as they are and no draw is issued.
C5_ResizeOnlyDimensions ==
  [][nResizes' # nResizes =>
       /\ width' = window'[1]
       /\ height' = window'[2]
       /\ canvas' = window'
       /\ UNCHANGED <<program, buffers, locations, delta, time, lastTimestamp,
                      draws, drawLog, rafPending>>]_vars

C5_Witness ==
  /\ nResizes = 2
  /\ draws >= 1
  /\ delta > 0
  /\ <<width, height>> # LastDraw.gl.screen
  /\ program = "program"

\* C6: on a 1920x1080 surface, a callback at 0 and then one at 25 ms give
\* exactly one draw, issued by the second callback, with screen =
\* (1920, 1080) and time = 0.025.
C6_EndToEnd ==
  (window = <<1920, 1080>> /\ nResizes = 0 /\ firstTs = 0) =>
    /\ nCalls = 1 => draws = 0
    /\ (nCalls = 2 /\ clock = Ms(25)) =>
         /\ draws = 1
         /\ LastDraw.ts = Ms(25)
         /\ LastDraw.gl.screen = <<1920, 1080>>
         /\ LastDraw.gl.time * 1000 = 25 * Scale

C6_Witness ==
  /\ window = <<1920, 1080>>
  /\ nResizes = 0
  /\ firstTs = 0
  /\ nCalls = 2
  /\ clock = Ms(25)
  /\ draws = 1

\* C7: when a shader fails to compile or the program fails to link, the
\* constructor's error names the first failing stage, start() is not called,
\* no callback is registered and nothing is drawn.
C7_ConstructionFailure ==
  pc # "loading" =>
    /\ error = (IF ~gl.vertex THEN "vertex"
                ELSE IF ~gl.fragment THEN "fragment"
                ELSE IF ~gl.link THEN "link" ELSE "none")
    /\ error # "none" =>
         /\ pc = "failed"
         /\ rafPending = 0
         /\ nCalls = 0
         /\ draws = 0

C7_Witness ==
  /\ pc = "failed"
  /\ error = "fragment"
  /\ ~gl.link
  /\ nResizes = 1

\* C8: a non-first callback with acc = delta + (timestamp - lastTimestamp)
\* draws once and leaves delta = acc - MILLIS_PER_FRAME when
\* acc >= MILLIS_PER_FRAME, and otherwise draws nothing and leaves
\* delta = acc; no callback draws more than once.
C8_FrameStep ==
  [][nCalls' # nCalls =>
       /\ draws' - draws \in {0, 1}
       /\ nCalls >= 1 =>
            LET acc == delta + (clock' - lastTimestamp)
            IN  IF acc >= MILLIS_PER_FRAME
                THEN draws' = draws + 1 /\ delta' = acc - MILLIS_PER_FRAME
                ELSE draws' = draws /\ delta' = acc]_vars

C8_Witness ==
  /\ draws >= 1
  /\ LastDraw.ts = clock
  /\ delta >= MILLIS_PER_FRAME

\* C9: once started, exactly one callback request is outstanding between
\* callbacks, and under a fair host loop another callback is always
\* eventually delivered (while the host loop has a timestamp to deliver).
C9_LoopContinues ==
  /\ [](pc = "running" => rafPending = 1)
  /\ \A n \in CallCounts :
       (pc = "running" /\ nCalls = n /\ NextTimestamps # {}) ~> (nCalls > n)

C9_Witness ==
  /\ pc = "running"
  /\ nCalls >= 4
  /\ draws >= 1
  /\ draws < nCalls - 1
  /\ rafPending = 1

\* C10: every draw uploads time = timestamp / 1000 of the callback that
\* issues it, and screen and viewport equal to the size read by the most
\* recent resize (or by the constructor).
C10_DrawUniforms ==
  \A i \in 1..Len(drawLog) :
    /\ drawLog[i].gl.time * 1000 = drawLog[i].ts
    /\ drawLog[i].gl.screen = drawLog[i].surface
    /\ drawLog[i].gl.viewport = <<0, 0>> \o drawLog[i].surface

C10_Witness ==
  /\ Len(drawLog) = 2
  /\ nResizes = 2
  /\ LastDraw.surface # PrevDraw.surface
  /\ LastDraw.gl.time # PrevDraw.gl.time
  /\ LastDraw.rest > 0

====
